---- MODULE Spec2Model ----
(***************************************************************************)
(* Model of coverage/pep669_tracer.py: the Pep669Tracer event handlers,    *)
(* its start()/stop() methods, the panopticon wrapper, and the part of     *)
(* sys.monitoring the tracer drives (tool id, global call-level events,    *)
(* per-code-object local events, registered callbacks).                    *)
(*                                                                         *)
(* The interpreter is modelled as a call stack of frames plus a set of     *)
(* suspended generator frames.  Each interpreter step (a unit starting,    *)
(* returning, yielding, resuming, executing a line, branching, jumping)    *)
(* runs the tracer's handler for that event exactly when sys.monitoring    *)
(* would deliver it.                                                       *)
(***************************************************************************)
EXTENDS Integers, Sequences, FiniteSets, TLC

\* ------------------------------------------------------------------ bounds
MaxDepth == 2
MaxSteps == 7
NumLines == 1

\* --------------------------------------------------------- program constants
\* f_lineno of the handler's own frame when `self.last_line = frame.f_lineno`
\* runs: inspect.currentframe() returns the frame of sysmon_py_resume itself.
ResumeHandlerLine == 276

\* self.last_line as set by __init__.
InitLastLine == 0

None == "None"

\* ------------------------------------------------------- the traced program
\* Code objects of the traced program: A is a function, G a generator
\* function.
Codes == {"A", "G"}

FileNames == {"fa", "fb"}

\* code.co_filename for the two layouts of the program: both units in one
\* file, or one file each.
Layouts == { [c \in Codes |-> "fa"],
             [c \in Codes |-> IF c = "A" THEN "fa" ELSE "fb"] }

co_firstlineno == [c \in Codes |-> IF c = "A" THEN 1 ELSE 10]

IsGenerator(c) == c = "G"

\* The source lines of a code object: line numbers are >= 1.
Lines(c) == co_firstlineno[c] .. (co_firstlineno[c] + NumLines - 1)

AllLines == UNION {Lines(c) : c \in Codes}

\* dis.get_instructions(code): every line of the unit starts one instruction
\* that is followed by one instruction with starts_line None.
NumInstructions(c) == 2 * NumLines

\* inst.starts_line is not None
HasStartsLine(c, i) == i % 2 = 1

starts_line(c, i) == co_firstlineno[c] + (i - 1) \div 2

InstructionOffset(i) == 2 * (i - 1)

\* cur_line after the first i instructions of the loop in bytes_to_lines.
RECURSIVE CurLineAt(_, _)
CurLineAt(c, i) ==
    IF i = 0 THEN None
    ELSE IF HasStartsLine(c, i) THEN starts_line(c, i)
    ELSE CurLineAt(c, i - 1)

bytes_to_lines(c) ==
    [off \in {InstructionOffset(i) : i \in 1 .. NumInstructions(c)} |->
        CurLineAt(c, (off \div 2) + 1)]

\* ---------------------------------------------------------------- variables
VARIABLES
    \* Pep669Tracer attributes
    data, trace_arcs, should_trace_cache,
    cur_file_data, cur_file_name, last_line,
    code_infos, frame_stack,
    stopped, activity, in_atexit,
    \* sys.monitoring state for COVERAGE_ID
    tool_in_use, global_events, local_events, callbacks,
    \* the interpreter and the program it runs
    co_filename, vm_stack, suspended,
    \* observation of the run: the handler the last step ran, the file name
    \* it passed to should_trace, whether it recorded an entry already
    \* present, the file names passed to should_trace since start(), the
    \* file name of the last call of should_trace that raised (until a
    \* unit-start after that name is decided), and what start() began
    ev, ask, dup, asked, raised_last, wf, nogen, base, solo,
    \* the number of steps taken
    steps,
    \* whether the collector has set data, should_trace and
    \* should_trace_cache on the tracer
    configured,
    \* self.threading is set, self.thread, the running thread and the call
    \* stack of the thread that is not running
    threading, thread, cur_thread, parked,
    \* observation of the run: the outcome of start() or reset_activity()
    \* when the last step called one, whether a unit-start was handled since
    \* construction or the last reset_activity()
    call, saw_start

tracerVars == <<data, trace_arcs, should_trace_cache, cur_file_data, cur_file_name,
                last_line, code_infos, frame_stack, stopped, activity, in_atexit>>

monVars == <<tool_in_use, global_events, local_events, callbacks>>

vars == <<data, trace_arcs, should_trace_cache, cur_file_data, cur_file_name,
          last_line, code_infos, frame_stack, stopped, activity, in_atexit,
          tool_in_use, global_events, local_events, callbacks,
          co_filename, vm_stack, suspended,
          ev, ask, dup, asked, raised_last, wf, nogen, base, solo, steps,
          configured, threading, thread, cur_thread, parked,
          call, saw_start>>

\* ------------------------------------------------------------ collaborators
\* disp.source_filename: the canonical name under which the file's data is
\* stored (differs from the observed file name).
canonical_filename(f) == IF f = "fa" THEN "sa" ELSE "sb"

\* The outcomes of self.should_trace(filename, frame): a disposition saying
\* to trace, one saying not to, or an exception.
should_trace(f) ==
    { [raises |-> FALSE, disp |-> [trace |-> TRUE, source_filename |-> canonical_filename(f)]],
      [raises |-> FALSE, disp |-> [trace |-> FALSE, source_filename |-> None]],
      [raises |-> TRUE, disp |-> [trace |-> FALSE, source_filename |-> None]] }

\* ------------------------------------------------------------------ helpers
\* d[k] = v on a dict.
DictSet(d, k, v) == [x \in (DOMAIN d) \cup {k} |-> IF x = k THEN v ELSE d[x]]

CurTriple == <<cur_file_data, cur_file_name, last_line>>

\* self.frame_stack.append((self.cur_file_data, self.cur_file_name, self.last_line))
PushFrame(stack, triple) == Append(stack, triple)

\* A pop from the wrong end of the list.
PopFrameBottom(stack) == [triple |-> stack[1], rest |-> SubSeq(stack, 1, Len(stack) - 1)]

\* self.frame_stack.pop(): the popped triple and the remaining stack.
PopFrame(stack) == [triple |-> stack[Len(stack)], rest |-> SubSeq(stack, 1, Len(stack) - 1)]

\* The disposition is used but never stored.
CacheStoreSkipped(cache, filename, disp) == cache

\* self.should_trace_cache[filename] = disp
CacheStore(cache, filename, disp) == DictSet(cache, filename, disp)

\* A failure of should_trace stored as "do not trace".
CacheFalseNegative(cache, filename) ==
    DictSet(cache, filename, [trace |-> FALSE, source_filename |-> None])

\* should_trace raised at line 238: line 239 is not reached.
CacheOnRaise(cache, filename) == cache

\* The set is created without looking for an existing one.
FileDataReset(d, tracename) == DictSet(d, tracename, {})

\* if tracename not in self.data: self.data[tracename] = set()
FileData(d, tracename) == IF tracename \in DOMAIN d THEN d ELSE DictSet(d, tracename, {})

\* The first line itself, not its negative.
EntrySentinelPositive(code) == co_firstlineno[code]

\* -code.co_firstlineno
EntrySentinel(code) == 0 - co_firstlineno[code]

\* A CodeInfo that always says the unit is not traced.
CodeInfoUntraced(tracing, file_data, b2l) ==
    [tracing |-> FALSE, file_data |-> file_data, byte_to_line |-> b2l]

\* CodeInfo(tracing=..., file_data=..., byte_to_line=...)
CodeInfo(tracing, file_data, b2l) ==
    [tracing |-> tracing, file_data |-> file_data, byte_to_line |-> b2l]

\* A unit-start that leaves the flag as it was.
MarkActivityKept(flag) == flag

\* self._activity = True
MarkActivity(flag) == TRUE

\* The request made whatever the disposition says.
RequestLocalEventsAlways(tracing, events, code) == events \cup {code}

\* sys.monitoring.set_local_events(self.myid, code, LINE | BRANCH | JUMP),
\* called only `if tracing_code`.
RequestLocalEvents(tracing, events, code) == IF tracing THEN events \cup {code} ELSE events

\* What sysmon_line adds to the current file's set.
LineEntry(arcs, from, line) == IF arcs THEN <<from, line>> ELSE line

\* cast(Set, self.cur_file_data).add(entry)
AddEntry(d, key, entry) == [d EXCEPT ![key] = @ \cup {entry}]

\* ------------------------------------------------------------------ handlers
\* sysmon_py_start, wrapped by panopticon: when should_trace raises, or
\* self.should_trace_cache was never set, the wrapper sets the tool's global
\* events to 0 and re-raises.
sysmon_py_start(code) ==
    LET filename == co_filename[code] IN
    /\ activity' = MarkActivity(activity)
    /\ frame_stack' = PushFrame(frame_stack, CurTriple)
    /\ IF code \in DOMAIN code_infos
       THEN /\ cur_file_data' = code_infos[code].file_data
            /\ last_line' = EntrySentinel(code)
            /\ ask' = None
            /\ UNCHANGED <<cur_file_name, should_trace_cache, code_infos, data,
                           local_events, global_events>>
       ELSE IF ~configured
       THEN /\ cur_file_name' = filename
            /\ cur_file_data' = None
            /\ ask' = None
            /\ global_events' = FALSE
            /\ UNCHANGED <<last_line, should_trace_cache, code_infos, data, local_events>>
       ELSE /\ cur_file_name' = filename
            /\ IF filename \in DOMAIN should_trace_cache
               THEN ask' = None
               ELSE ask' = filename
            /\ \E res \in (IF filename \in DOMAIN should_trace_cache
                           THEN {[raises |-> FALSE, disp |-> should_trace_cache[filename]]}
                           ELSE should_trace(filename)) :
                IF res.raises
                THEN /\ cur_file_data' = None
                     /\ should_trace_cache' = CacheOnRaise(should_trace_cache, filename)
                     /\ global_events' = FALSE
                     /\ UNCHANGED <<last_line, code_infos, data, local_events>>
                ELSE /\ should_trace_cache' =
                            IF filename \in DOMAIN should_trace_cache
                            THEN should_trace_cache
                            ELSE CacheStore(should_trace_cache, filename, res.disp)
                     /\ data' = IF res.disp.trace
                                THEN FileData(data, res.disp.source_filename)
                                ELSE data
                     /\ cur_file_data' = IF res.disp.trace THEN res.disp.source_filename
                                         ELSE None
                     /\ code_infos' = DictSet(code_infos, code,
                            CodeInfo(res.disp.trace, cur_file_data',
                                     IF res.disp.trace THEN bytes_to_lines(code) ELSE None))
                     /\ local_events' = RequestLocalEvents(res.disp.trace, local_events, code)
                     /\ last_line' = EntrySentinel(code)
                     /\ UNCHANGED global_events
    /\ UNCHANGED <<trace_arcs, stopped, in_atexit, tool_in_use, callbacks>>

sysmon_py_resume(code) ==
    /\ frame_stack' = PushFrame(frame_stack, CurTriple)
    /\ last_line' = ResumeHandlerLine
    /\ UNCHANGED <<data, trace_arcs, should_trace_cache, cur_file_data, cur_file_name,
                   code_infos, stopped, activity, in_atexit, monVars>>

sysmon_py_return(code) ==
    /\ data' = IF cur_file_data # None /\ trace_arcs
               THEN AddEntry(data, cur_file_data, <<last_line, EntrySentinel(code)>>)
               ELSE data
    /\ IF frame_stack # <<>>
       THEN /\ cur_file_data' = PopFrame(frame_stack).triple[1]
            /\ cur_file_name' = PopFrame(frame_stack).triple[2]
            /\ last_line' = PopFrame(frame_stack).triple[3]
            /\ frame_stack' = PopFrame(frame_stack).rest
       ELSE UNCHANGED <<cur_file_data, cur_file_name, last_line, frame_stack>>
    /\ UNCHANGED <<trace_arcs, should_trace_cache, code_infos, stopped, activity,
                   in_atexit, monVars>>

sysmon_py_yield(code) ==
    UNCHANGED <<tracerVars, monVars>>

sysmon_line(code, line_number) ==
    /\ IF cur_file_data # None
       THEN /\ data' = AddEntry(data, cur_file_data,
                                LineEntry(trace_arcs, last_line, line_number))
            /\ last_line' = line_number
       ELSE UNCHANGED <<data, last_line>>
    /\ UNCHANGED <<trace_arcs, should_trace_cache, cur_file_data, cur_file_name,
                   code_infos, frame_stack, stopped, activity, in_atexit, monVars>>

sysmon_branch(code) ==
    UNCHANGED <<tracerVars, monVars>>

sysmon_jump(code) ==
    UNCHANGED <<tracerVars, monVars>>

\* -------------------------------------------------------- event delivery
\* PY_START, PY_RETURN, PY_RESUME, PY_YIELD are requested with set_events.
CallEventsOn == global_events /\ callbacks

\* LINE, BRANCH, JUMP are requested per code object with set_local_events.
LocalEventsOn(code) == code \in local_events /\ callbacks

Top == vm_stack[Len(vm_stack)]

PopVm == SubSeq(vm_stack, 1, Len(vm_stack) - 1)

NoSaved == <<None, None, 0, 0>>

\* A frame of the interpreter's call stack.  seen: its entry event was
\* handled since start(); paired: so was every call-level event since, none
\* of them a yield or a resume; saved: the tracer's current triple and the
\* frame_stack depth just before the entry event.
VmFrame(code, seen, paired, saved) ==
    [code |-> code, seen |-> seen, paired |-> paired, saved |-> saved]

Entered(code) == VmFrame(code, wf, wf /\ nogen,
                         IF wf /\ nogen
                         THEN <<cur_file_data, cur_file_name, last_line, Len(frame_stack)>>
                         ELSE NoSaved)

Unseen(stack) == [i \in 1 .. Len(stack) |-> VmFrame(stack[i].code, FALSE, FALSE, NoSaved)]

Unpaired(stack) == [i \in 1 .. Len(stack) |-> VmFrame(stack[i].code, stack[i].seen, FALSE, NoSaved)]

NoSolo == [valid |-> FALSE, prev |-> 0]

\* The threads of the program, named by their idents.
Threads == {"t1", "t2"}

\* A step that calls neither start() nor reset_activity().
Quiet ==
    /\ call' = "none"
    /\ UNCHANGED <<configured, threading, thread, cur_thread, parked, saw_start>>

\* An interpreter step that no handler sees.
Unobserved ==
    /\ ev' = "none"
    /\ ask' = None
    /\ dup' = FALSE
    /\ wf' = FALSE
    /\ nogen' = FALSE
    /\ base' = 0
    /\ solo' = NoSolo
    /\ UNCHANGED <<tracerVars, monVars, asked, raised_last>>

\* ------------------------------------------------------------------ actions
\* Every step of the run counts against the length of the runs explored.
Step == steps < MaxSteps /\ steps' = steps + 1

InitTracer ==
    /\ data = <<>>
    /\ trace_arcs \in BOOLEAN
    /\ should_trace_cache = <<>>
    /\ cur_file_data = None
    /\ cur_file_name = None
    /\ last_line = InitLastLine
    /\ code_infos = <<>>
    /\ frame_stack = <<>>
    /\ stopped = FALSE
    /\ activity = FALSE
    /\ in_atexit = FALSE
    /\ tool_in_use = FALSE
    /\ global_events = FALSE
    /\ local_events = {}
    /\ callbacks = FALSE
    /\ co_filename \in Layouts
    /\ vm_stack = <<>>
    /\ suspended = {}
    /\ ev = "none"
    /\ ask = None
    /\ dup = FALSE
    /\ asked = {}
    /\ raised_last = None
    /\ steps = 0
    /\ wf = FALSE
    /\ nogen = FALSE
    /\ base = 0
    /\ solo = NoSolo
    /\ thread = None
    /\ cur_thread = "t1"
    /\ parked = <<>>
    /\ call = "none"
    /\ saw_start = FALSE

\* A tracer the collector has set up, with self.threading None.
Init == InitTracer /\ configured = TRUE /\ threading = FALSE

\* Pep669Tracer.start().  With self.threading set and a thread recorded by
\* an earlier start(), a call from another thread reaches
\* `return self._cached_bound_method_trace`, an attribute the class never
\* assigns: AttributeError.  Otherwise use_tool_id raises ValueError when
\* the tool id is still in use, and nothing changes.
Start ==
    /\ Step
    /\ stopped' = FALSE
    /\ ev' = "none"
    /\ ask' = None
    /\ dup' = FALSE
    /\ solo' = NoSolo
    /\ UNCHANGED <<data, trace_arcs, should_trace_cache, cur_file_data, cur_file_name,
                   last_line, code_infos, frame_stack, activity, in_atexit,
                   local_events, co_filename, suspended, raised_last,
                   configured, threading, cur_thread, saw_start>>
    /\ IF threading /\ thread # None /\ thread # cur_thread
       THEN /\ call' = "raised"
            /\ UNCHANGED <<tool_in_use, global_events, callbacks, thread, vm_stack, parked,
                           asked, wf, nogen, base>>
       ELSE /\ ~tool_in_use
            /\ thread' = IF threading /\ thread = None THEN cur_thread ELSE thread
            /\ tool_in_use' = TRUE
            /\ global_events' = TRUE
            /\ callbacks' = TRUE
            /\ vm_stack' = Unseen(vm_stack)
            /\ parked' = Unseen(parked)
            /\ call' = "started"
            /\ asked' = {}
            /\ wf' = TRUE
            /\ nogen' = TRUE
            /\ base' = Len(frame_stack)

\* Pep669Tracer.stop(): set_events(myid, 0), then free_tool_id(myid), which
\* either only releases the tool id (the local events and the callbacks stay)
\* or also clears them, depending on the interpreter version.  Without a
\* tool id in use both calls raise and nothing changes.
Stop ==
    /\ tool_in_use
    /\ Step
    /\ global_events' = FALSE
    /\ tool_in_use' = FALSE
    /\ \E clears \in BOOLEAN :
          /\ local_events' = IF clears THEN {} ELSE local_events
          /\ callbacks' = IF clears THEN FALSE ELSE callbacks
    /\ vm_stack' = Unseen(vm_stack)
    /\ ev' = "none"
    /\ ask' = None
    /\ dup' = FALSE
    /\ wf' = FALSE
    /\ nogen' = FALSE
    /\ base' = 0
    /\ solo' = NoSolo
    /\ call' = "none"
    /\ UNCHANGED <<tracerVars, co_filename, suspended, asked, raised_last,
                   configured, threading, thread, cur_thread, parked, saw_start>>

\* atexit.register(setattr, self, "in_atexit", True)
AtExit ==
    /\ ~in_atexit
    /\ Step
    /\ in_atexit' = TRUE
    /\ ev' = "none"
    /\ ask' = None
    /\ dup' = FALSE
    /\ UNCHANGED <<data, trace_arcs, should_trace_cache, cur_file_data, cur_file_name,
                   last_line, code_infos, frame_stack, stopped, activity,
                   monVars, co_filename, vm_stack, suspended,
                   asked, raised_last, wf, nogen, base, solo>>
    /\ Quiet

\* A code unit begins executing.  When the handler raises, the exception
\* unwinds the new frame at once.
PyStart(code) ==
    /\ Len(vm_stack) < MaxDepth
    /\ Step
    /\ UNCHANGED <<co_filename, suspended>>
    /\ call' = "none"
    /\ saw_start' = (saw_start \/ CallEventsOn)
    /\ UNCHANGED <<configured, threading, thread, cur_thread, parked>>
    /\ IF CallEventsOn
       THEN /\ sysmon_py_start(code)
            /\ ev' = "start"
            /\ dup' = FALSE
            /\ asked' = IF ask' # None THEN asked \cup {ask'} ELSE asked
            /\ IF global_events'
               THEN /\ vm_stack' = Append(vm_stack, Entered(code))
                    /\ solo' = [valid |-> code_infos'[code].tracing, prev |-> 0]
                    /\ raised_last' = IF raised_last \in DOMAIN should_trace_cache
                                      THEN None ELSE raised_last
                    /\ UNCHANGED <<wf, nogen, base>>
               ELSE /\ vm_stack' = Unseen(vm_stack)
                    /\ raised_last' = IF ask' # None THEN ask' ELSE raised_last
                    /\ wf' = FALSE
                    /\ nogen' = FALSE
                    /\ base' = 0
                    /\ solo' = NoSolo
       ELSE /\ vm_stack' = Append(Unseen(vm_stack), VmFrame(code, FALSE, FALSE, NoSaved))
            /\ Unobserved

\* The executing unit returns.
PyReturn ==
    /\ vm_stack # <<>>
    /\ Step
    /\ Quiet
    /\ UNCHANGED <<co_filename, suspended>>
    /\ IF CallEventsOn
       THEN /\ sysmon_py_return(Top.code)
            /\ ev' = "return"
            /\ ask' = None
            /\ dup' = FALSE
            /\ solo' = NoSolo
            /\ IF wf /\ Top.seen
               THEN /\ vm_stack' = PopVm
                    /\ UNCHANGED <<wf, nogen, base>>
               ELSE /\ vm_stack' = Unseen(PopVm)
                    /\ wf' = FALSE
                    /\ nogen' = FALSE
                    /\ base' = 0
            /\ UNCHANGED <<asked, raised_last>>
       ELSE /\ vm_stack' = Unseen(PopVm)
            /\ Unobserved

\* The executing generator suspends.
PyYield ==
    /\ vm_stack # <<>>
    /\ Step
    /\ Quiet
    /\ IsGenerator(Top.code)
    /\ suspended' = suspended \cup {Top.code}
    /\ UNCHANGED co_filename
    /\ IF CallEventsOn
       THEN /\ sysmon_py_yield(Top.code)
            /\ ev' = "yield"
            /\ ask' = None
            /\ dup' = FALSE
            /\ solo' = NoSolo
            /\ nogen' = FALSE
            /\ IF wf /\ Top.seen
               THEN /\ vm_stack' = Unpaired(PopVm)
                    /\ UNCHANGED <<wf, base>>
               ELSE /\ vm_stack' = Unseen(PopVm)
                    /\ wf' = FALSE
                    /\ base' = 0
            /\ UNCHANGED <<asked, raised_last>>
       ELSE /\ vm_stack' = Unseen(PopVm)
            /\ Unobserved

\* A suspended generator resumes.
PyResume(g) ==
    /\ g \in suspended
    /\ Step
    /\ Quiet
    /\ Len(vm_stack) < MaxDepth
    /\ suspended' = suspended \ {g}
    /\ UNCHANGED co_filename
    /\ IF CallEventsOn
       THEN /\ sysmon_py_resume(g)
            /\ vm_stack' = Append(Unpaired(vm_stack), VmFrame(g, wf, FALSE, NoSaved))
            /\ ev' = "resume"
            /\ ask' = None
            /\ dup' = FALSE
            /\ solo' = NoSolo
            /\ nogen' = FALSE
            /\ UNCHANGED <<asked, raised_last, wf, base>>
       ELSE /\ vm_stack' = Append(Unseen(vm_stack), VmFrame(g, FALSE, FALSE, NoSaved))
            /\ Unobserved

\* The executing unit executes line n.
Line(n) ==
    /\ vm_stack # <<>>
    /\ Step
    /\ n \in Lines(Top.code)
    /\ UNCHANGED <<co_filename, vm_stack, suspended>>
    /\ call' = "none"
    /\ UNCHANGED <<configured, threading, thread, cur_thread, parked, saw_start>>
    /\ IF LocalEventsOn(Top.code)
       THEN /\ sysmon_line(Top.code, n)
            /\ ev' = "line"
            /\ ask' = None
            /\ dup' = (cur_file_data # None
                        /\ LineEntry(trace_arcs, last_line, n) \in data[cur_file_data])
            /\ solo' = IF solo.valid THEN [valid |-> TRUE, prev |-> n] ELSE NoSolo
            /\ UNCHANGED <<asked, raised_last, wf, nogen, base>>
       ELSE /\ ev' = "none"
            /\ ask' = None
            /\ dup' = FALSE
            /\ solo' = NoSolo
            /\ UNCHANGED <<tracerVars, monVars, asked, raised_last, wf, nogen, base>>

\* The executing unit takes a branch: delivered only with local events on.
Branch ==
    /\ vm_stack # <<>>
    /\ Step
    /\ Quiet
    /\ LocalEventsOn(Top.code)
    /\ sysmon_branch(Top.code)
    /\ ev' = "branch"
    /\ ask' = None
    /\ dup' = FALSE
    /\ UNCHANGED <<co_filename, vm_stack, suspended, asked, raised_last, wf, nogen, base, solo>>

\* The executing unit jumps: delivered only with local events on.
Jump ==
    /\ vm_stack # <<>>
    /\ Step
    /\ Quiet
    /\ LocalEventsOn(Top.code)
    /\ sysmon_jump(Top.code)
    /\ ev' = "jump"
    /\ ask' = None
    /\ dup' = FALSE
    /\ UNCHANGED <<co_filename, vm_stack, suspended, asked, raised_last, wf, nogen, base, solo>>

Next ==
    \/ Start
    \/ Stop
    \/ AtExit
    \/ \E code \in Codes : PyStart(code)
    \/ PyReturn
    \/ PyYield
    \/ \E g \in suspended : PyResume(g)
    \/ \E n \in AllLines : Line(n)
    \/ Branch
    \/ Jump

Spec == Init /\ [][Next]_vars

\* Pep669Tracer.reset_activity()
ResetActivity ==
    /\ Step
    /\ activity' = FALSE
    /\ saw_start' = FALSE
    /\ call' = "reset"
    /\ ev' = "none"
    /\ ask' = None
    /\ dup' = FALSE
    /\ UNCHANGED <<data, trace_arcs, should_trace_cache, cur_file_data, cur_file_name,
                   last_line, code_infos, frame_stack, stopped, in_atexit,
                   monVars, co_filename, vm_stack, suspended,
                   asked, raised_last, wf, nogen, base, solo,
                   configured, threading, thread, cur_thread, parked>>

\* Pep669Tracer.activity()
activity_result == activity

NextActivity == Next \/ ResetActivity

\* What is recorded has no part in the activity flag: line mode only.
InitActivity == Init /\ ~trace_arcs

\* The tracer with its owner calling reset_activity() at any time.
SpecActivity == InitActivity /\ [][NextActivity]_vars

\* A tracer started with or without the collector's attributes set.
InitConfig == InitTracer /\ configured \in BOOLEAN /\ threading = FALSE

SpecConfig == InitConfig /\ [][Next]_vars

\* The interpreter switches to the other thread of the program: its call
\* stack becomes the running one.  sys.monitoring delivers the events of
\* every thread to the same callbacks.
Switch ==
    /\ Step
    /\ cur_thread' = CHOOSE t \in Threads : t # cur_thread
    /\ parked' = vm_stack
    /\ vm_stack' = IF ~wf THEN Unseen(parked)
                   ELSE IF ~nogen THEN Unpaired(parked)
                   ELSE parked
    /\ ev' = "none"
    /\ ask' = None
    /\ dup' = FALSE
    /\ call' = "none"
    /\ solo' = NoSolo
    /\ UNCHANGED <<tracerVars, monVars, co_filename, suspended,
                   asked, raised_last, wf, nogen, base,
                   configured, threading, thread, saw_start>>

\* A tracer with self.threading set, in a program of two threads.
InitThreads == InitTracer /\ configured = TRUE /\ threading = TRUE

NextThreads == Next \/ Switch

SpecThreads == InitThreads /\ [][NextThreads]_vars

\* ------------------------------------------------------------------ claims
\* The code unit of the event the step's handler ran for (None when the
\* handler raised in unit-start).
EvCode ==
    IF ev' \in {"start", "resume"}
    THEN IF Len(vm_stack') > Len(vm_stack) THEN vm_stack'[Len(vm_stack')].code ELSE None
    ELSE Top.code

\* The disposition stored for the unit's file says not to trace.
NotTraced(c) ==
    /\ co_filename[c] \in DOMAIN should_trace_cache'
    /\ ~should_trace_cache'[co_filename[c]].trace

\* The handler of this step raised: panopticon has set the events to 0.
Raised == global_events /\ ~global_events' /\ tool_in_use'

\* C1: after a well-formed sequence of events (every exit matched to an entry
\* handled since start(), none left open), frame_stack is as deep as it was
\* when the sequence began.
StackBalance ==
    (wf /\ \A i \in 1 .. Len(vm_stack) : ~vm_stack[i].seen) => Len(frame_stack) = base

\* C2: no event delivered for a code unit whose disposition is trace=false
\* changes the Collected Data Store.
DisabledUnitIsolation ==
    [][(ev' # "none" /\ EvCode # None /\ NotTraced(EvCode)) => data' = data]_vars

\* C3: within one start()..stop() session should_trace is called at most
\* once per file name and never for a name that has a cached disposition;
\* a cached disposition is never replaced, and a unit resolved for a cached
\* name gets the cached decision.
IdempotentDecision ==
    [][/\ ask' # None => (ask' \notin asked /\ ask' \notin DOMAIN should_trace_cache)
       /\ \A f \in DOMAIN should_trace_cache :
             f \in DOMAIN should_trace_cache' /\ should_trace_cache'[f] = should_trace_cache[f]
       /\ (ev' = "start" /\ EvCode # None /\ co_filename[EvCode] \in DOMAIN should_trace_cache)
             => code_infos'[EvCode].tracing = should_trace_cache[co_filename[EvCode]].trace
      ]_vars

\* C3 witness: two code units of one file are resolved, the second one from
\* the cache.
SecondUnitFromCache ==
    /\ ev = "start"
    /\ ask = None
    /\ co_filename["A"] = co_filename["G"]
    /\ DOMAIN code_infos = Codes

\* The line the unit running alone executed last, or its entry sentinel.
PrevOrSentinel == IF solo.prev = 0 THEN 0 - co_firstlineno[Top.code] ELSE solo.prev

SoloKey == canonical_filename(co_filename[Top.code])

\* C4: a traced unit with first line N that is entered, executes lines with
\* no nested call and returns: unit-start leaves last_line = -N, which is no
\* line number, and an (empty, if new) set for its file; each line adds
\* exactly the line, or the arc from the previous line (first from -N); the
\* return adds exactly the arc to -N in arc mode and nothing in line mode.
SingleUnitRecording ==
    [][/\ (ev' = "start" /\ solo'.valid) =>
             /\ last_line' = 0 - co_firstlineno[EvCode]
             /\ last_line' < 1
             /\ last_line' \notin AllLines
             /\ cur_file_data' = canonical_filename(co_filename[EvCode])
             /\ DOMAIN data' = DOMAIN data \cup {cur_file_data'}
             /\ \A k \in DOMAIN data : data'[k] = data[k]
             /\ cur_file_data' \notin DOMAIN data => data'[cur_file_data'] = {}
       /\ (ev' = "line" /\ solo.valid) =>
             data' = [data EXCEPT ![SoloKey] =
                         @ \cup {IF trace_arcs THEN <<PrevOrSentinel, solo'.prev>>
                                 ELSE solo'.prev}]
       /\ (ev' = "return" /\ solo.valid) =>
             data' = IF trace_arcs
                     THEN [data EXCEPT ![SoloKey] =
                              @ \cup {<<PrevOrSentinel, 0 - co_firstlineno[Top.code]>>}]
                     ELSE data
      ]_vars

\* C4 witness: unit A (first line 1) was entered, executed line 1 and
\* returned, in arc mode.
ScenarioA ==
    /\ ev = "return"
    /\ trace_arcs
    /\ "sa" \in DOMAIN data
    /\ data["sa"] = {<<0 - 1, 1>>, <<1, 0 - 1>>}

\* C5: with every unit-start and unit-return handled and no generator
\* event, a unit-return restores the triple that was current just before
\* the matching unit-start and the frame_stack depth of that moment, and a
\* unit-start deepens frame_stack by one.
CallerRestored ==
    [][/\ (ev' = "return" /\ Top.paired) =>
             /\ <<cur_file_data', cur_file_name', last_line', Len(frame_stack')>> = Top.saved
       /\ (ev' = "start") => Len(frame_stack') = Len(frame_stack) + 1
      ]_vars

\* C5 witness: a nested unit has returned to its traced caller, whose last
\* line is the line of the call again and frame_stack is at depth 1.
NestedReturn ==
    /\ ev = "return"
    /\ vm_stack # <<>>
    /\ Top.paired
    /\ Len(frame_stack) = 1
    /\ cur_file_data # None
    /\ last_line \in Lines(Top.code)

\* C6: no step removes a file key or an entry of a file's set, and a line
\* event whose line or arc is already in the set leaves the store unchanged.
AppendOnly ==
    [][/\ \A k \in DOMAIN data : k \in DOMAIN data' /\ data[k] \subseteq data'[k]
       /\ (ev' = "line" /\ cur_file_data # None
             /\ (IF trace_arcs THEN <<last_line, last_line'>> ELSE last_line')
                   \in data[cur_file_data])
             => (data' = data /\ Cardinality(data'[cur_file_data]) = Cardinality(data[cur_file_data]))
      ]_vars

\* C6 witness: a line event recorded a line or arc that was already there.
RecordedTwice == ev = "line" /\ dup

\* C7: a start() after a stop() leaves frame_stack empty, and should_trace
\* is not called for a file name decided before.
RestartClean ==
    [][/\ (~tool_in_use /\ tool_in_use') => frame_stack' = <<>>
       /\ ask' # None => ask' \notin DOMAIN should_trace_cache
      ]_vars

\* C8: a unit-return handled with frame_stack empty outside process exit is
\* a fault of the handler.
EmptyReturnFatal ==
    [][(ev' = "return" /\ frame_stack = <<>> /\ ~in_atexit) => Raised]_vars

\* C9: once a handler has raised, no handler runs until the next start(),
\* and what was recorded stays.
FaultContained ==
    [][(tool_in_use /\ ~global_events) =>
          /\ ev' = "none"
          /\ \A k \in DOMAIN data : k \in DOMAIN data' /\ data[k] \subseteq data'[k]
      ]_vars

\* C10: when should_trace raises in unit-start, the handler raises, neither
\* should_trace_cache nor code_infos changes, and a later unit-start for a
\* unit of that file calls should_trace again.
FailureNotCached ==
    [][/\ (ev' = "start" /\ Raised) =>
             /\ ask' # None
             /\ ask' \notin DOMAIN should_trace_cache'
             /\ should_trace_cache' = should_trace_cache
             /\ code_infos' = code_infos
       /\ (ev' = "start" /\ raised_last # None /\ raised_last \notin DOMAIN should_trace_cache
             /\ EvCode # None /\ co_filename[EvCode] = raised_last)
             => (ask' = raised_last /\ raised_last \in DOMAIN should_trace_cache')
      ]_vars

\* C10 witness: should_trace raised for a file name, and a unit-start after
\* a restart called it again for that name and got a disposition.
AskedAgain ==
    /\ ev = "start"
    /\ ask # None
    /\ ask = raised_last
    /\ ask \in DOMAIN should_trace_cache

\* What stop() must freeze: the tracer's bookkeeping and the store.
frozenVars == <<data, should_trace_cache, cur_file_data, cur_file_name, last_line,
                code_infos, frame_stack, activity>>

\* C11: while the tracer is stopped (its tool id released) no handler runs
\* for any event, line events of units with fine-grained delivery requested
\* earlier included, and neither the tracer state nor the store changes.
NoEventsAfterStop ==
    [][~tool_in_use => (ev' = "none" /\ UNCHANGED frozenVars)]_vars

\* The store key of the unit's own file.
OwnKey(c) == canonical_filename(co_filename[c])

\* C12: in every interleaving of two threads, with every call-level event
\* handled and no generator involved, a unit-return of a thread restores the
\* triple saved at that thread's matching unit-start, and after a line event
\* of a traced unit that a thread executes that unit's file set holds a line
\* of the unit and no other file's set has changed.
ThreadIsolation ==
    [][/\ (ev' = "return" /\ Top.paired) =>
             <<cur_file_data', cur_file_name', last_line', Len(frame_stack')>> = Top.saved
       /\ (ev' = "line" /\ Top.paired /\ Top.code \in DOMAIN code_infos
             /\ code_infos[Top.code].tracing) =>
             /\ \A k \in DOMAIN data \ {OwnKey(Top.code)} : data'[k] = data[k]
             /\ \E n \in Lines(Top.code) : \E e \in data'[OwnKey(Top.code)] :
                    IF trace_arcs THEN e[2] = n ELSE e = n
      ]_vars

\* C13: activity() is true exactly when a unit-start was handled since
\* construction or the last reset_activity(), and only a unit-start or
\* reset_activity() changes the flag.
ActivityMeter ==
    [][/\ activity_result' = saw_start'
       /\ activity' # activity => (ev' = "start" \/ call' = "reset")
      ]_vars

\* C13 witness: reset_activity() has cleared the flag that a unit-start,
\* whose pushed triple is still on frame_stack, had set.
ResetAfterActivity ==
    /\ call = "reset"
    /\ ~activity_result
    /\ frame_stack # <<>>

\* C14: with self.threading set, start() called on a thread other than the
\* recorded one completes without an error, registers nothing, requests no
\* events and leaves frame_stack, the current triple and the caches alone.
StartOtherThreadDeclines ==
    [][(call' \in {"started", "raised"} /\ threading /\ thread # None /\ thread # cur_thread) =>
          /\ call' # "raised"
          /\ UNCHANGED <<callbacks, global_events, local_events, frame_stack,
                         cur_file_data, cur_file_name, last_line,
                         should_trace_cache, code_infos>>
      ]_vars

\* C15: on a tracer whose collaborators were never set, start() fails and no
\* event handler ever runs.
ConfigErrorFailsStart ==
    [][~configured => (call' # "started" /\ ev' = "none")]_vars

\* C16: after every unit-start the handler completed for unit U, first
\* resolution or cached entry, cur_file_data is the file_data of U's
\* CodeInfo and cur_file_name is U's file name.
UnitStartPostcondition ==
    [][(ev' = "start" /\ EvCode # None /\ EvCode \in DOMAIN code_infos') =>
          /\ cur_file_data' = code_infos'[EvCode].file_data
          /\ cur_file_name' = co_filename[EvCode]
      ]_vars

\* C17: after a unit-resume of a unit U entered earlier, cur_file_data is
\* the file_data of U's CodeInfo and last_line is a line of U, the one its
\* frame was suspended at.
UnitResumePostcondition ==
    [][(ev' = "resume" /\ EvCode # None /\ EvCode \in DOMAIN code_infos) =>
          /\ cur_file_data' = code_infos[EvCode].file_data
          /\ last_line' \in Lines(EvCode)
      ]_vars

\* C18: a stored CodeInfo is never removed, replaced or changed; an entry
\* appears only in the unit-start of its own unit; and every stored CodeInfo
\* has file_data and byte_to_line exactly when tracing is true, file_data
\* being the store's set for the canonical name of the unit's file (the
\* registry starts empty, so it is enough to look after every step that
\* changes the registry, the cache or the store).
RegistryPermanence ==
    [][/\ code_infos' # code_infos =>
             /\ \A c \in DOMAIN code_infos :
                   c \in DOMAIN code_infos' /\ code_infos'[c] = code_infos[c]
             /\ \A c \in DOMAIN code_infos' \ DOMAIN code_infos :
                   /\ ev' = "start"
                   /\ EvCode = c
                   /\ code_infos'[c].tracing =>
                         code_infos'[c].byte_to_line = bytes_to_lines(c)
       /\ <<code_infos, should_trace_cache, data>>' # <<code_infos, should_trace_cache, data>> =>
             \A c \in DOMAIN code_infos' :
                LET ci == code_infos'[c] IN
                /\ ci.tracing = should_trace_cache'[co_filename[c]].trace
                /\ ci.file_data = (IF ci.tracing
                                   THEN should_trace_cache'[co_filename[c]].source_filename
                                   ELSE None)
                /\ ci.tracing => (ci.file_data = OwnKey(c) /\ ci.file_data \in DOMAIN data')
                /\ ~ci.tracing => ci.byte_to_line = None
      ]_vars

\* C18 witness: a unit called itself, so its second unit-start found the
\* CodeInfo the first had stored, and the registry holds a traced and an
\* untraced unit.
RegistryReused ==
    /\ ev = "start"
    /\ Len(vm_stack) = 2
    /\ vm_stack[1].code = vm_stack[2].code
    /\ vm_stack[1].seen
    /\ vm_stack[2].seen
    /\ \E c, d \in DOMAIN code_infos : code_infos[c].tracing /\ ~code_infos[d].tracing

\* C19: per-unit line/branch/jump delivery is requested only in the
\* unit-start of that unit, only when the unit had no CodeInfo yet, only
\* with its CodeInfo (line index included) stored and saying to trace, and
\* never under a disposition that says not to trace.
FineGrainedOnlyTraced ==
    [][\A c \in local_events' \ local_events :
          /\ ev' = "start"
          /\ EvCode = c
          /\ c \notin DOMAIN code_infos
          /\ c \in DOMAIN code_infos'
          /\ code_infos'[c].tracing
          /\ should_trace_cache'[co_filename[c]].trace
          /\ code_infos'[c].byte_to_line = bytes_to_lines(c)
      ]_vars

\* C19 witness: the first unit-start of a traced unit has requested its
\* fine-grained events.
FineGrainedRequested ==
    /\ ev = "start"
    /\ ask # None
    /\ vm_stack # <<>>
    /\ Top.code \in local_events
    /\ Top.code \in DOMAIN code_infos
    /\ code_infos[Top.code].tracing

\* C20: over a well-formed event sequence, generators included, after a line
\* event of a traced unit whose entry was handled the set of the unit's own
\* canonical file name holds a line of the unit (or an arc to one), and no
\* other file's set has changed.
CorrectAttribution ==
    [][(ev' = "line" /\ wf /\ Top.seen /\ Top.code \in DOMAIN code_infos
           /\ code_infos[Top.code].tracing) =>
          /\ \A k \in DOMAIN data \ {OwnKey(Top.code)} : data'[k] = data[k]
          /\ \E n \in Lines(Top.code) : \E entry \in data'[OwnKey(Top.code)] :
                 IF trace_arcs THEN entry[2] = n ELSE entry = n
      ]_vars

====
